---- MODULE Spec2Model ----
(***************************************************************************)
(* OLI front end: the Lexer (src/src/lexer/lexer.rs) and the recursive     *)
(* descent expression Parser (src/src/ast/parser.rs) with the AST          *)
(* rendering (src/src/ast/expression.rs).                                  *)
(*                                                                         *)
(* The specifications share the variables:                                 *)
(*   Spec        a Lexer over every source of at most MaxLen characters,   *)
(*               one action per iteration of the scan_tokens loop;         *)
(*   ParserSpec  a Parser over bounded token sequences, one action per     *)
(*               step of the mutually recursive productions (the call      *)
(*               stack is explicit);                                       *)
(*   RenderSpec  Expression::to_string on bounded expression trees.        *)
(* PunctSpec and KeywordSpec are Spec over other alphabets, ScanSpec is    *)
(* Spec over fewer characters with weak fairness of its steps, CursorSpec  *)
(* is                                                                      *)
(* ParserSpec over fewer token kinds with weak fairness of its steps, and  *)
(* SyncSpec is Parser::synchronize over bounded token sequences.           *)
(*                                                                         *)
(* A Rust String is UTF-8: String::len and the slice source[a..b] count    *)
(* bytes, chars().nth(i) counts characters.  The model keeps the two       *)
(* apart: a source is a sequence of characters, each with its code point   *)
(* and UTF-8 width.  A failed unwrap or an invalid slice is a panic.       *)
(***************************************************************************)
EXTENDS Integers, Sequences, FiniteSets, TLC

\* Bounds of the model.
MaxLen == 3
MaxCalls == 2
MaxTokens == 3
MaxOps == 3
MaxNodes == 3

VARIABLES
    source,     \* Lexer.source, as a sequence of characters
    tokens,     \* Lexer.tokens
    start,      \* Lexer.start
    current,    \* Lexer.current
    line,       \* Lexer.line
    errors,     \* the local `errors` of the running scan_tokens call
    lpc,        \* "idle" | "scanning" | "returned" | "panicked"
    result,     \* what the last completed scan_tokens call returned
    calls,      \* scan_tokens calls started on this Lexer
    ptokens,    \* Parser.tokens
    pcurrent,   \* Parser.current
    stack,      \* the call stack of the productions, innermost frame last
    ret,        \* the Result the innermost finished call returned
    ppc,        \* "idle" | "running" | "done" | "panicked"
    ast,        \* an Expression, as tests::test_pretty_print builds one
    rendered    \* what to_string returned for it, once it was called

lexvars == <<source, tokens, start, current, line, errors, lpc, result, calls>>
parvars == <<ptokens, pcurrent, stack, ret, ppc>>
astvars == <<ast, rendered>>
vars == <<lexvars, parvars, astvars>>

-----------------------------------------------------------------------------
\* Characters.  A character is a one-character string; the characters TLA+
\* strings cannot spell are named by their code point.

NUL == "U+0000"
EAcute == "U+00E9"
LStroke == "U+0141"
\* The value of a failed chars().nth(i).unwrap(): no character at all.
PanicChar == "panic"

Punctuation == {"(", ")", "{", "}", ",", ".", "-", "+", ";", "*"}
Operators == {"!", "=", "<", ">"}
Blank == {" ", "\r", "\t"}

\* The characters of the sources of Spec: every kind of character scan_token
\* tells apart, and two characters outside ASCII.
Alphabet ==
    {"(", ")", ".", "-", " ", "/", "\n", "\"", "1", "a", "_", "@", EAcute, LStroke}
        \cup Operators

\* The characters of the sources of PunctSpec: all the punctuation and white
\* space, and one character outside ASCII.
PunctAlphabet == Punctuation \cup Blank \cup {"/", "\n", EAcute}

\* The characters of the sources of KeywordSpec: the letters of the keywords
\* "if", "or", "for" and "Nil", another casing, a digit, the underscore, a
\* blank, and one character outside ASCII.
KeywordAlphabet == {"i", "f", "o", "r", "N", "n", "l", "_", "1", " ", EAcute}

CodePoint(c) ==
    CASE c = NUL -> 0
      [] c = "\t" -> 9
      [] c = "\n" -> 10
      [] c = "\r" -> 13
      [] c = " " -> 32
      [] c = "!" -> 33
      [] c = "\"" -> 34
      [] c = "(" -> 40
      [] c = ")" -> 41
      [] c = "*" -> 42
      [] c = "+" -> 43
      [] c = "," -> 44
      [] c = "-" -> 45
      [] c = "." -> 46
      [] c = "/" -> 47
      [] c = "1" -> 49
      [] c = ";" -> 59
      [] c = "<" -> 60
      [] c = "=" -> 61
      [] c = ">" -> 62
      [] c = "@" -> 64
      [] c = "N" -> 78
      [] c = "_" -> 95
      [] c = "a" -> 97
      [] c = "f" -> 102
      [] c = "i" -> 105
      [] c = "l" -> 108
      [] c = "n" -> 110
      [] c = "o" -> 111
      [] c = "r" -> 114
      [] c = "{" -> 123
      [] c = "}" -> 125
      [] c = EAcute -> 233
      [] c = LStroke -> 321

\* `ch as u8` keeps the low eight bits of the code point.
as_u8(ch) == CodePoint(ch) % 256

\* The bytes a character takes in a String.
Utf8Len(c) ==
    IF CodePoint(c) < 128 THEN 1 ELSE IF CodePoint(c) < 2048 THEN 2 ELSE 3

RECURSIVE ByteLen(_)
ByteLen(s) == IF s = <<>> THEN 0 ELSE Utf8Len(Head(s)) + ByteLen(Tail(s))

RECURSIVE Concat(_)
Concat(s) == IF s = <<>> THEN "" ELSE Head(s) \o Concat(Tail(s))

-----------------------------------------------------------------------------
\* Token model.

NoLiteral == [kind |-> "None", text |-> "", num |-> 0, den |-> 1]
FValue(n, d) == [kind |-> "FValue", text |-> "", num |-> n, den |-> d]
IntValue(n) == [kind |-> "IntValue", text |-> "", num |-> n, den |-> 1]
StringValue(s) == [kind |-> "StringValue", text |-> s, num |-> 0, den |-> 1]

Token(type, text, lit, ln) ==
    [token_type |-> type, lexeme |-> text, literal |-> lit, line_number |-> ln]

KeywordNames ==
    {"and", "class", "else", "False", "for", "fun", "if", "Nil", "or", "say",
     "return", "super", "this", "True", "var", "while"}

get_keywords(word) ==
    CASE word = "and" -> "And"
      [] word = "class" -> "Class"
      [] word = "else" -> "Else"
      [] word = "False" -> "False"
      [] word = "for" -> "For"
      [] word = "fun" -> "Function"
      [] word = "if" -> "If"
      [] word = "Nil" -> "Nil"
      [] word = "or" -> "Or"
      [] word = "say" -> "Say"
      [] word = "return" -> "Return"
      [] word = "super" -> "Super"
      [] word = "this" -> "This"
      [] word = "True" -> "True"
      [] word = "var" -> "Variable"
      [] word = "while" -> "While"

-----------------------------------------------------------------------------
\* Lexer helpers.  Positions are the code's 0-based usize values.

SourceLen == ByteLen(source)

is_at_end(cur) == cur >= SourceLen

\* chars().nth(i) is Some
HasChar(i) == i < Len(source)
nth(i) == source[i + 1]

\* The byte offset at which character i starts.
ByteOffset(i) == ByteLen(SubSeq(source, 1, i))
IsCharBoundary(b) == \E i \in 0..Len(source) : ByteOffset(i) = b
CharIndexAt(b) == CHOOSE i \in 0..Len(source) : ByteOffset(i) = b

\* source[a..b] does not panic
SliceOk(a, b) == a <= b /\ IsCharBoundary(a) /\ IsCharBoundary(b)
SliceChars(a, b) == SubSeq(source, CharIndexAt(a) + 1, CharIndexAt(b))
Slice(a, b) == Concat(SliceChars(a, b))

is_digit(ch) == as_u8(ch) >= 48 /\ as_u8(ch) <= 57

is_alphabetical(ch) ==
    \/ (as_u8(ch) >= 97 /\ as_u8(ch) <= 122)
    \/ (as_u8(ch) >= 65 /\ as_u8(ch) <= 90)
    \/ as_u8(ch) = 95

is_alpha_numeric(ch) == is_alphabetical(ch) \/ is_digit(ch)

peek(cur) ==
    IF is_at_end(cur) THEN NUL
    ELSE IF HasChar(cur) THEN nth(cur) ELSE PanicChar

peek_next(cur) ==
    IF cur + 1 >= SourceLen THEN NUL
    ELSE IF HasChar(cur + 1) THEN nth(cur + 1) ELSE PanicChar

char_match(cur, c) ==
    IF is_at_end(cur) THEN [panic |-> FALSE, matched |-> FALSE, current |-> cur]
    ELSE IF ~HasChar(cur) THEN [panic |-> TRUE, matched |-> FALSE, current |-> cur]
    ELSE IF nth(cur) # c THEN [panic |-> FALSE, matched |-> FALSE, current |-> cur]
    ELSE [panic |-> FALSE, matched |-> TRUE, current |-> cur + 1]

\* Outcomes of one scan_token call: a panic, Ok(()) (err = ""), or Err(err).
Panicked == [panic |-> TRUE, err |-> "", tokens |-> <<>>, current |-> 0, line |-> 0]
Scanned(toks, cur, ln) ==
    [panic |-> FALSE, err |-> "", tokens |-> toks, current |-> cur, line |-> ln]
Failed(toks, cur, ln, msg) ==
    [panic |-> FALSE, err |-> msg, tokens |-> toks, current |-> cur, line |-> ln]

\* A slip in add_token_literal: the new token takes the place of the last.
add_token_literal_replacing(toks, st, cur, ln, type, lit) ==
    IF ~SliceOk(st, cur) THEN Panicked
    ELSE IF toks = <<>> THEN Scanned(<<Token(type, Slice(st, cur), lit, ln)>>, cur, ln)
    ELSE Scanned([toks EXCEPT ![Len(toks)] = Token(type, Slice(st, cur), lit, ln)], cur, ln)

add_token_literal(toks, st, cur, ln, type, lit) ==
    IF ~SliceOk(st, cur) THEN Panicked
    ELSE Scanned(Append(toks, Token(type, Slice(st, cur), lit, ln)), cur, ln)

add_token(toks, st, cur, ln, type) ==
    add_token_literal(toks, st, cur, ln, type, NoLiteral)

\* f64::from_str on the texts this alphabet can spell: an optional sign, then
\* digits with an optional '.', at least one digit in all.
IsF64Text(s) ==
    LET body == IF s # <<>> /\ Head(s) \in {"+", "-"} THEN Tail(s) ELSE s
        dots == {i \in 1..Len(body) : body[i] = "."}
    IN  /\ \A i \in 1..Len(body) : body[i] = "." \/ (body[i] # PanicChar /\ CodePoint(body[i]) < 128 /\ is_digit(body[i]))
        /\ Cardinality(dots) <= 1
        /\ \E i \in 1..Len(body) : body[i] # "."

RECURSIVE DigitsValue(_)
DigitsValue(s) ==
    IF s = <<>> THEN 0
    ELSE 10 * DigitsValue(SubSeq(s, 1, Len(s) - 1)) + (as_u8(s[Len(s)]) - 48)

RECURSIVE Pow10(_)
Pow10(n) == IF n = 0 THEN 1 ELSE 10 * Pow10(n - 1)

RECURSIVE Gcd(_, _)
Gcd(a, b) == IF b = 0 THEN a ELSE Gcd(b, a % b)

\* The value of a text IsF64Text accepts, as a fraction in lowest terms.
ParseF64(s) ==
    LET neg == s # <<>> /\ Head(s) = "-"
        body == IF s # <<>> /\ Head(s) \in {"+", "-"} THEN Tail(s) ELSE s
        digits == SelectSeq(body, LAMBDA ch : ch # ".")
        dot == IF \E i \in 1..Len(body) : body[i] = "."
               THEN CHOOSE i \in 1..Len(body) : body[i] = "."
               ELSE Len(body) + 1
        n == DigitsValue(digits)
        d == Pow10(Len(body) + 1 - dot - (IF dot <= Len(body) THEN 1 ELSE 0))
        g == IF n = 0 THEN d ELSE Gcd(n, d)
    IN  FValue((IF neg THEN 0 - 1 ELSE 1) * (n \div g), d \div g)

\* while self.is_digit(self.peek()) { self.advance(); }   (-1: panic)
RECURSIVE DigitLoop(_)
DigitLoop(cur) ==
    LET p == peek(cur)
    IN  IF p = PanicChar THEN 0 - 1
        ELSE IF is_digit(p) THEN DigitLoop(cur + 1) ELSE cur

number(toks, st, cur, ln) ==
    LET c1 == DigitLoop(cur)
        p == peek(c1)
        pn == IF p = "." THEN peek_next(c1) ELSE NUL
        c2 == IF p = "." /\ pn # PanicChar /\ is_digit(pn) THEN DigitLoop(c1 + 1) ELSE c1
    IN  IF c1 < 0 \/ pn = PanicChar \/ c2 < 0 THEN Panicked
        ELSE IF ~SliceOk(st, c2) THEN Panicked
        ELSE IF IsF64Text(SliceChars(st, c2))
             THEN add_token_literal(toks, st, c2, ln, "Number", ParseF64(SliceChars(st, c2)))
             ELSE Failed(toks, c2, ln, "Could not parse number: " \o Slice(st, c2))

\* while self.is_alpha_numeric(self.peek()) { self.advance(); }   (-1: panic)
RECURSIVE IdentifierLoop(_)
IdentifierLoop(cur) ==
    LET p == peek(cur)
    IN  IF p = PanicChar THEN 0 - 1
        ELSE IF is_alpha_numeric(p) THEN IdentifierLoop(cur + 1) ELSE cur

identifier(toks, st, cur, ln) ==
    LET c1 == IdentifierLoop(cur)
    IN  IF c1 < 0 THEN Panicked
        ELSE IF ~SliceOk(st, c1) THEN Panicked
        ELSE IF Slice(st, c1) \in KeywordNames
             THEN add_token(toks, st, c1, ln, get_keywords(Slice(st, c1)))
             ELSE add_token(toks, st, c1, ln, "Identifier")

\* The loop of string(): up to the closing quote or the end of input.
RECURSIVE StringLoop(_, _)
StringLoop(cur, ln) ==
    LET p == peek(cur)
    IN  IF p = PanicChar THEN [panic |-> TRUE, current |-> cur, line |-> ln]
        ELSE IF p # "\"" /\ ~is_at_end(cur)
             THEN StringLoop(cur + 1, IF p = "\n" THEN ln + 1 ELSE ln)
             ELSE [panic |-> FALSE, current |-> cur, line |-> ln]

\* The payload of a string token whose lexeme is source[st..cur].
StringPayload(st, cur) == Slice(st + 1, cur - 1)

string(toks, st, cur, ln) ==
    LET r == StringLoop(cur, ln)
    IN  IF r.panic THEN Panicked
        ELSE IF is_at_end(r.current)
             THEN Failed(toks, r.current, r.line, "Unterminated string.")
        ELSE IF ~SliceOk(st + 1, r.current) THEN Panicked
        ELSE add_token_literal(toks, st, r.current + 1, r.line, "StringLiteral",
                               StringValue(StringPayload(st, r.current + 1)))

\* The loop of the "//" arm: up to, not including, the newline.   (-1: panic)
RECURSIVE CommentLoop(_)
CommentLoop(cur) ==
    LET p == peek(cur)
    IN  IF p = PanicChar THEN 0 - 1
        ELSE IF p = "\n" \/ is_at_end(cur) THEN cur ELSE CommentLoop(cur + 1)

\* A slip in the table: '-' and '+' exchanged.
SingleCharType_swapped(c) ==
    CASE c = "(" -> "LeftParen"
      [] c = ")" -> "RightParen"
      [] c = "{" -> "LeftBrace"
      [] c = "}" -> "RightBrace"
      [] c = "," -> "Comma"
      [] c = "." -> "Dot"
      [] c = "-" -> "Plus"
      [] c = "+" -> "Minus"
      [] c = ";" -> "SemiColon"
      [] c = "*" -> "Star"

SingleCharType(c) ==
    CASE c = "(" -> "LeftParen"
      [] c = ")" -> "RightParen"
      [] c = "{" -> "LeftBrace"
      [] c = "}" -> "RightBrace"
      [] c = "," -> "Comma"
      [] c = "." -> "Dot"
      [] c = "-" -> "Minus"
      [] c = "+" -> "Plus"
      [] c = ";" -> "SemiColon"
      [] c = "*" -> "Star"

OneCharType(c) ==
    CASE c = "!" -> "Bang"
      [] c = "=" -> "Equal"
      [] c = "<" -> "Less"
      [] c = ">" -> "Greater"

TwoCharType(c) ==
    CASE c = "!" -> "BangEqual"
      [] c = "=" -> "EqualEqual"
      [] c = "<" -> "LessEqual"
      [] c = ">" -> "GreaterEqual"

\* The four operator arms: '=' next makes the two-character token.
operator_token(toks, st, cur, ln, c) ==
    LET m == char_match(cur, "=")
    IN  IF m.panic THEN Panicked
        ELSE add_token(toks, st, m.current, ln,
                       IF m.matched THEN TwoCharType(c) ELSE OneCharType(c))

slash_or_comment(toks, st, cur, ln) ==
    LET m == char_match(cur, "/")
    IN  IF m.panic THEN Panicked
        ELSE IF m.matched
             THEN IF CommentLoop(m.current) < 0 THEN Panicked
                  ELSE Scanned(toks, CommentLoop(m.current), ln)
             ELSE add_token(toks, st, m.current, ln, "Slash")

\* scan_token with self.start = self.current = st on entry.
scan_token(toks, st, ln) ==
    IF ~HasChar(st) THEN Panicked
    ELSE LET c == nth(st)
             cur == st + 1
         IN  CASE c \in Punctuation -> add_token(toks, st, cur, ln, SingleCharType(c))
               [] c \in Operators -> operator_token(toks, st, cur, ln, c)
               [] c = "/" -> slash_or_comment(toks, st, cur, ln)
               [] c \in Blank -> Scanned(toks, cur, ln)
               [] c = "\n" -> Scanned(toks, cur, ln + 1)
               [] c = "\"" -> string(toks, st, cur, ln)
               [] OTHER ->
                    IF is_digit(c) THEN number(toks, st, cur, ln)
                    ELSE IF is_alphabetical(c) THEN identifier(toks, st, cur, ln)
                    ELSE Failed(toks, cur, ln,
                                "Unrecognized char at line " \o ToString(ln) \o ": " \o c)

EofToken(ln) == Token("Eof", "", NoLiteral, ln)

RECURSIVE JoinErrors(_)
JoinErrors(errs) ==
    IF errs = <<>> THEN "" ELSE Head(errs) \o "\n" \o JoinErrors(Tail(errs))

NoResult == [ok |-> FALSE, tokens |-> <<>>, msg |-> ""]
Ok(toks) == [ok |-> TRUE, tokens |-> toks, msg |-> ""]
Err(msg) == [ok |-> FALSE, tokens |-> <<>>, msg |-> msg]

-----------------------------------------------------------------------------
\* Lexer actions.

RECURSIVE SeqsUpTo(_, _)
SeqsUpTo(S, n) ==
    IF n = 0 THEN {<<>>}
    ELSE LET shorter == SeqsUpTo(S, n - 1)
         IN  shorter \cup {Append(s, c) : s \in {t \in shorter : Len(t) = n - 1}, c \in S}

\* The sources of at most n characters.
Sources(n) == SeqsUpTo(Alphabet, n)
PunctSources(n) == SeqsUpTo(PunctAlphabet, n)
KeywordSources(n) == SeqsUpTo(KeywordAlphabet, n)

\* Lexer::new(source), for a source of the set S
LexerNew(S) ==
    /\ source \in S
    /\ tokens = <<>>
    /\ start = 0
    /\ current = 0
    /\ line = 1
    /\ errors = <<>>
    /\ lpc = "idle"
    /\ result = NoResult
    /\ calls = 0

\* scan_tokens is entered: `let mut errors = vec![]`.
ScanTokensCall ==
    /\ lpc \in {"idle", "returned"}
    /\ calls < MaxCalls
    /\ lpc' = "scanning"
    /\ errors' = <<>>
    /\ calls' = calls + 1
    /\ UNCHANGED <<source, tokens, start, current, line, result>>
    /\ UNCHANGED <<parvars, astvars>>

\* One iteration of the while loop, scan_token returning Ok or Err.
ScanTokenStep ==
    /\ lpc = "scanning"
    /\ ~is_at_end(current)
    /\ \E r \in {scan_token(tokens, current, line)} :
           /\ ~r.panic
           /\ start' = current
           /\ tokens' = r.tokens
           /\ current' = r.current
           /\ line' = r.line
           /\ errors' = IF r.err # "" THEN Append(errors, r.err) ELSE errors
    /\ UNCHANGED <<source, lpc, result, calls>>
    /\ UNCHANGED <<parvars, astvars>>

\* One iteration of the while loop in which scan_token panics.
ScanTokenPanic ==
    /\ lpc = "scanning"
    /\ ~is_at_end(current)
    /\ scan_token(tokens, current, line).panic
    /\ start' = current
    /\ lpc' = "panicked"
    /\ UNCHANGED <<source, tokens, current, line, errors, result, calls>>
    /\ UNCHANGED <<parvars, astvars>>

\* The loop is left: the Eof token is pushed and the call returns.
ScanTokensReturn ==
    /\ lpc = "scanning"
    /\ is_at_end(current)
    /\ tokens' = Append(tokens, EofToken(line))
    /\ result' = IF Len(errors) > 0 THEN Err(JoinErrors(errors)) ELSE Ok(tokens')
    /\ lpc' = "returned"
    /\ UNCHANGED <<source, start, current, line, errors, calls>>
    /\ UNCHANGED <<parvars, astvars>>

-----------------------------------------------------------------------------
\* AST model and rendering (src/src/ast/expression.rs).

NoExpr == [node |-> "None"]
Binary(l, op, r) == [node |-> "Binary", left |-> l, operator |-> op, right |-> r]
Grouping(e) == [node |-> "Grouping", expression |-> e]
Literal(v) == [node |-> "Literal", value |-> v]
Unary(op, r) == [node |-> "Unary", operator |-> op, right |-> r]

\* expression::LiteralValue.  Number holds an f32; the numbers of this model
\* are exact in f32 and are kept as fractions.
LiteralNumber(n, d) == [kind |-> "Number", text |-> "", num |-> n, den |-> d]
LiteralString(s) == [kind |-> "StringValue", text |-> s, num |-> 0, den |-> 1]
LiteralKeyword(k) == [kind |-> k, text |-> "", num |-> 0, den |-> 1]

\* LiteralValue::from_token does not panic
FromTokenOk(token) ==
    CASE token.token_type = "Number" -> token.literal.kind \in {"IntValue", "FValue"}
      [] token.token_type = "StringLiteral" ->
            token.literal.kind \in {"StringValue", "IdentifierValue"}
      [] token.token_type \in {"False", "True", "Nil"} -> TRUE
      [] OTHER -> FALSE

from_token(token) ==
    CASE token.token_type = "Number" -> LiteralNumber(token.literal.num, token.literal.den)
      [] token.token_type = "StringLiteral" -> LiteralString(token.literal.text)
      [] token.token_type = "False" -> LiteralKeyword("False")
      [] token.token_type = "True" -> LiteralKeyword("True")
      [] token.token_type = "Nil" -> LiteralKeyword("Nil")

\* The digits after the decimal point of rem / den (den divides a power of 10).
RECURSIVE FractionDigits(_, _)
FractionDigits(rem, den) ==
    IF rem = 0 THEN ""
    ELSE ToString((10 * rem) \div den) \o FractionDigits((10 * rem) % den, den)

\* f32's Display for the fraction n / d.
NumberToString(n, d) ==
    LET a == IF n < 0 THEN 0 - n ELSE n
    IN  (IF n < 0 THEN "-" ELSE "") \o ToString(a \div d)
            \o (IF a % d = 0 THEN "" ELSE "." \o FractionDigits(a % d, d))

LiteralValue_to_string(value) ==
    CASE value.kind = "Number" -> NumberToString(value.num, value.den)
      [] value.kind = "StringValue" -> value.text
      [] value.kind = "True" -> "True"
      [] value.kind = "False" -> "False"
      [] value.kind = "Nil" -> "Nil"

\* A slip in the Binary arm: the operator between its operands.
RECURSIVE to_string_infix(_)
to_string_infix(e) ==
    CASE e.node = "Binary" ->
            "(" \o to_string_infix(e.left) \o " " \o e.operator.lexeme \o " "
                \o to_string_infix(e.right) \o ")"
      [] e.node = "Grouping" -> "(group " \o to_string_infix(e.expression) \o ")"
      [] e.node = "Literal" -> LiteralValue_to_string(e.value)
      [] e.node = "Unary" ->
            "(" \o e.operator.lexeme \o " " \o to_string_infix(e.right) \o ")"

RECURSIVE to_string(_)
to_string(e) ==
    CASE e.node = "Binary" ->
            "(" \o e.operator.lexeme \o " " \o to_string(e.left) \o " "
                \o to_string(e.right) \o ")"
      [] e.node = "Grouping" -> "(group " \o to_string(e.expression) \o ")"
      [] e.node = "Literal" -> LiteralValue_to_string(e.value)
      [] e.node = "Unary" ->
            "(" \o e.operator.lexeme \o " " \o to_string(e.right) \o ")"

\* The String a to_string call returned, and none before the call.
NotRendered == [some |-> FALSE, text |-> ""]
Rendered(s) == [some |-> TRUE, text |-> s]

\* ast.to_string()
ToStringCall ==
    /\ ast # NoExpr
    /\ ~rendered.some
    /\ rendered' = Rendered(to_string(ast))
    /\ UNCHANGED ast
    /\ UNCHANGED <<lexvars, parvars>>

-----------------------------------------------------------------------------
\* Parser helpers (src/src/ast/parser.rs).  cur is the 0-based Parser.current.

\* self.tokens[cur] is in bounds
PeekOk(cur) == cur >= 0 /\ cur < Len(ptokens)
Parser_peek(cur) == ptokens[cur + 1]
Parser_is_at_end(cur) == Parser_peek(cur).token_type = "Eof"

\* self.tokens[cur - 1] is in bounds and cur - 1 does not underflow
PreviousOk(cur) == cur >= 1 /\ cur <= Len(ptokens)
Parser_previous(cur) == ptokens[cur]

NoToken == Token("None", "", NoLiteral, 0)

\* A slip in advance: the cursor moves whether or not it is on the Eof.
Parser_advance_unguarded(cur) ==
    IF ~PeekOk(cur) THEN [panic |-> TRUE, current |-> cur, token |-> NoToken]
    ELSE IF ~PreviousOk(cur + 1) THEN [panic |-> TRUE, current |-> cur + 1, token |-> NoToken]
    ELSE [panic |-> FALSE, current |-> cur + 1, token |-> Parser_previous(cur + 1)]

Parser_advance(cur) ==
    IF ~PeekOk(cur) THEN [panic |-> TRUE, current |-> cur, token |-> NoToken]
    ELSE LET n == IF Parser_is_at_end(cur) THEN cur ELSE cur + 1
         IN  IF ~PreviousOk(n) THEN [panic |-> TRUE, current |-> n, token |-> NoToken]
             ELSE [panic |-> FALSE, current |-> n, token |-> Parser_previous(n)]

match_token(cur, type) ==
    IF ~PeekOk(cur) THEN [panic |-> TRUE, matched |-> FALSE, current |-> cur]
    ELSE IF Parser_is_at_end(cur) THEN [panic |-> FALSE, matched |-> FALSE, current |-> cur]
    ELSE IF Parser_peek(cur).token_type = type
         THEN [panic |-> Parser_advance(cur).panic, matched |-> TRUE,
               current |-> Parser_advance(cur).current]
         ELSE [panic |-> FALSE, matched |-> FALSE, current |-> cur]

\* A slip in match_tokens: only the first type of the list is tried.
match_tokens_first(cur, types) ==
    IF types = <<>> THEN [panic |-> FALSE, matched |-> FALSE, current |-> cur]
    ELSE match_token(cur, Head(types))

RECURSIVE match_tokens(_, _)
match_tokens(cur, types) ==
    IF types = <<>> THEN [panic |-> FALSE, matched |-> FALSE, current |-> cur]
    ELSE LET m == match_token(cur, Head(types))
         IN  IF m.panic \/ m.matched THEN m ELSE match_tokens(cur, Tail(types))

\* A slip in consume: the unexpected token is skipped.
consume_skipping(cur, type, msg) ==
    IF ~PeekOk(cur) THEN [panic |-> TRUE, msg |-> "", current |-> cur]
    ELSE IF Parser_peek(cur).token_type = type
         THEN [panic |-> Parser_advance(cur).panic, msg |-> "",
               current |-> Parser_advance(cur).current]
         ELSE [panic |-> Parser_advance(cur).panic, msg |-> msg,
               current |-> Parser_advance(cur).current]

consume(cur, type, msg) ==
    IF ~PeekOk(cur) THEN [panic |-> TRUE, msg |-> "", current |-> cur]
    ELSE IF Parser_peek(cur).token_type = type
         THEN [panic |-> Parser_advance(cur).panic, msg |-> "",
               current |-> Parser_advance(cur).current]
         ELSE [panic |-> FALSE, msg |-> msg, current |-> cur]

\* The operator lists of the productions, in the order match_tokens tries them.
EqualityTypes == <<"BangEqual", "EqualEqual">>
ComparisonTypes == <<"Greater", "GreaterEqual", "Less", "LessEqual">>
\* A slip in term: '-' is missing from its operators.
TermTypes_plus == <<"Plus">>
TermTypes == <<"Minus", "Plus">>
\* A slip in factor: the operator list of equality.
FactorTypes_equality == <<"BangEqual", "EqualEqual">>
FactorTypes == <<"Slash", "Star">>
\* The prefix operators of the usual grammar: '!' and '-'.
UnaryTypes_minus == <<"Bang", "Minus">>
UnaryTypes == <<"Bang", "BangEqual">>
\* A slip in primary: ';' among the literal arms.
LiteralTypes_semicolon == {"False", "True", "Nil", "Number", "StringLiteral", "SemiColon"}
LiteralTypes == {"False", "True", "Nil", "Number", "StringLiteral"}

\* A slip in the loop body: the operands exchanged.
WrapBinary_swapped(expression, operator, right) == Binary(right, operator, expression)
\* expression = Expression::Binary { left: expression, operator, right }
WrapBinary(expression, operator, right) == Binary(expression, operator, right)

\* Results: none yet, Ok(expr), Err(msg).
NoRet == [state |-> "none", expr |-> NoExpr, msg |-> ""]
RetOk(e) == [state |-> "ok", expr |-> e, msg |-> ""]
RetErr(m) == [state |-> "err", expr |-> NoExpr, msg |-> m]

\* A frame of the call stack: the production, the place in its body, and its
\* locals `expression` and `operator`.
Frame(fn, at, e, op) == [fn |-> fn, at |-> at, expression |-> e, operator |-> op]
Enter(fn) == Frame(fn, "enter", NoExpr, NoToken)

Top == stack[Len(stack)]
Pop == SubSeq(stack, 1, Len(stack) - 1)
SetTop(f) == [stack EXCEPT ![Len(stack)] = f]
Call(f, callee) == Append(SetTop(f), Enter(callee))

-----------------------------------------------------------------------------
\* Parser actions.

\* parse() -> expression() -> equality()
parse ==
    /\ ppc = "idle"
    /\ ptokens # <<>>
    /\ ppc' = "running"
    /\ stack' = <<Enter("equality")>>
    /\ UNCHANGED <<ptokens, pcurrent, ret>>
    /\ UNCHANGED <<lexvars, astvars>>

\* The body shared by equality, comparison, term and factor:
\*   let mut expression = self.sub()?;
\*   while self.match_tokens(types) {
\*       let operator = self.previous();
\*       let right = self.sub()?;
\*       expression = Binary { left: expression, operator, right };
\*   }
\*   Ok(expression)
BinaryProduction(fn, types, sub) ==
    /\ ppc = "running"
    /\ stack # <<>>
    /\ Top.fn = fn
    /\ \/ /\ Top.at = "enter"
          /\ stack' = Call([Top EXCEPT !.at = "left"], sub)
          /\ UNCHANGED <<pcurrent, ret>>
       \/ /\ Top.at = "left"
          /\ ret.state = "ok"
          /\ stack' = SetTop([Top EXCEPT !.at = "loop", !.expression = ret.expr])
          /\ ret' = NoRet
          /\ UNCHANGED pcurrent
       \/ /\ Top.at = "right"
          /\ ret.state = "ok"
          /\ stack' = SetTop([Top EXCEPT !.at = "loop",
                                         !.expression = WrapBinary(Top.expression, Top.operator, ret.expr)])
          /\ ret' = NoRet
          /\ UNCHANGED pcurrent
       \/ /\ Top.at \in {"left", "right"}
          /\ ret.state = "err"
          /\ stack' = Pop
          /\ UNCHANGED <<pcurrent, ret>>
       \/ /\ Top.at = "loop"
          /\ \E m \in {match_tokens(pcurrent, types)} :
                /\ ~m.panic
                /\ m.matched
                /\ pcurrent' = m.current
                /\ stack' = Call([Top EXCEPT !.at = "right",
                                             !.operator = Parser_previous(m.current)], sub)
          /\ UNCHANGED ret
       \/ /\ Top.at = "loop"
          /\ \E m \in {match_tokens(pcurrent, types)} :
                /\ ~m.panic
                /\ ~m.matched
          /\ stack' = Pop
          /\ ret' = RetOk(Top.expression)
          /\ UNCHANGED pcurrent
    /\ UNCHANGED <<ptokens, ppc>>
    /\ UNCHANGED <<lexvars, astvars>>

equality == BinaryProduction("equality", EqualityTypes, "comparison")

comparison == BinaryProduction("comparison", ComparisonTypes, "term")

term == BinaryProduction("term", TermTypes, "factor")

factor == BinaryProduction("factor", FactorTypes, "unary")

unary ==
    /\ ppc = "running"
    /\ stack # <<>>
    /\ Top.fn = "unary"
    /\ \/ /\ Top.at = "enter"
          /\ \E m \in {match_tokens(pcurrent, UnaryTypes)} :
                /\ ~m.panic
                /\ m.matched
                /\ pcurrent' = m.current
                /\ stack' = Call([Top EXCEPT !.at = "operand",
                                             !.operator = Parser_previous(m.current)], "unary")
          /\ UNCHANGED ret
       \/ /\ Top.at = "enter"
          /\ \E m \in {match_tokens(pcurrent, UnaryTypes)} :
                /\ ~m.panic
                /\ ~m.matched
          /\ stack' = Call([Top EXCEPT !.at = "primary"], "primary")
          /\ UNCHANGED <<pcurrent, ret>>
       \/ /\ Top.at = "operand"
          /\ ret.state = "ok"
          /\ stack' = Pop
          /\ ret' = RetOk(Unary(Top.operator, ret.expr))
          /\ UNCHANGED pcurrent
       \/ /\ Top.at = "operand"
          /\ ret.state = "err"
          /\ stack' = Pop
          /\ UNCHANGED <<pcurrent, ret>>
       \/ /\ Top.at = "primary"
          /\ ret.state # "none"
          /\ stack' = Pop
          /\ UNCHANGED <<pcurrent, ret>>
    /\ UNCHANGED <<ptokens, ppc>>
    /\ UNCHANGED <<lexvars, astvars>>

primary ==
    /\ ppc = "running"
    /\ stack # <<>>
    /\ Top.fn = "primary"
    /\ \/ /\ Top.at = "enter"
          /\ PeekOk(pcurrent)
          /\ Parser_peek(pcurrent).token_type = "LeftParen"
          /\ ~Parser_advance(pcurrent).panic
          /\ pcurrent' = Parser_advance(pcurrent).current
          /\ stack' = Call([Top EXCEPT !.at = "inner"], "equality")
          /\ UNCHANGED ret
       \/ /\ Top.at = "enter"
          /\ PeekOk(pcurrent)
          /\ Parser_peek(pcurrent).token_type \in LiteralTypes
          /\ ~Parser_advance(pcurrent).panic
          /\ FromTokenOk(Parser_peek(pcurrent))
          /\ pcurrent' = Parser_advance(pcurrent).current
          /\ stack' = Pop
          /\ ret' = RetOk(Literal(from_token(Parser_peek(pcurrent))))
       \/ /\ Top.at = "enter"
          /\ PeekOk(pcurrent)
          /\ Parser_peek(pcurrent).token_type \notin LiteralTypes \cup {"LeftParen"}
          /\ stack' = Pop
          /\ ret' = RetErr("Expected expression")
          /\ UNCHANGED pcurrent
       \/ /\ Top.at = "inner"
          /\ ret.state = "err"
          /\ stack' = Pop
          /\ UNCHANGED <<pcurrent, ret>>
       \/ /\ Top.at = "inner"
          /\ ret.state = "ok"
          /\ \E c \in {consume(pcurrent, "RightParen", "Expected ')'")} :
                /\ ~c.panic
                /\ pcurrent' = c.current
                /\ ret' = IF c.msg = "" THEN RetOk(Grouping(ret.expr)) ELSE RetErr(c.msg)
          /\ stack' = Pop
    /\ UNCHANGED <<ptokens, ppc>>
    /\ UNCHANGED <<lexvars, astvars>>

\* The step the innermost frame is about to take indexes outside self.tokens.
StepPanics ==
    LET f == Top
    IN  CASE f.fn = "equality" -> f.at = "loop" /\ match_tokens(pcurrent, EqualityTypes).panic
          [] f.fn = "comparison" -> f.at = "loop" /\ match_tokens(pcurrent, ComparisonTypes).panic
          [] f.fn = "term" -> f.at = "loop" /\ match_tokens(pcurrent, TermTypes).panic
          [] f.fn = "factor" -> f.at = "loop" /\ match_tokens(pcurrent, FactorTypes).panic
          [] f.fn = "unary" -> f.at = "enter" /\ match_tokens(pcurrent, UnaryTypes).panic
          [] f.fn = "primary" ->
                \/ /\ f.at = "enter"
                   /\ \/ ~PeekOk(pcurrent)
                      \/ /\ Parser_peek(pcurrent).token_type \in LiteralTypes \cup {"LeftParen"}
                         /\ Parser_advance(pcurrent).panic
                      \/ /\ Parser_peek(pcurrent).token_type \in LiteralTypes
                         /\ ~FromTokenOk(Parser_peek(pcurrent))
                \/ /\ f.at = "inner"
                   /\ ret.state = "ok"
                   /\ consume(pcurrent, "RightParen", "Expected ')'").panic

ParserPanic ==
    /\ ppc = "running"
    /\ stack # <<>>
    /\ StepPanics
    /\ ppc' = "panicked"
    /\ UNCHANGED <<ptokens, pcurrent, stack, ret>>
    /\ UNCHANGED <<lexvars, astvars>>

\* parse returns to its caller what equality returned.
ParseReturn ==
    /\ ppc = "running"
    /\ stack = <<>>
    /\ ppc' = "done"
    /\ UNCHANGED <<ptokens, pcurrent, stack, ret>>
    /\ UNCHANGED <<lexvars, astvars>>

-----------------------------------------------------------------------------
\* Parser inputs.

LexemeOf(type) ==
    CASE type = "LeftParen" -> "("
      [] type = "RightParen" -> ")"
      [] type = "Minus" -> "-"
      [] type = "Plus" -> "+"
      [] type = "SemiColon" -> ";"
      [] type = "Slash" -> "/"
      [] type = "Star" -> "*"
      [] type = "Bang" -> "!"
      [] type = "BangEqual" -> "!="
      [] type = "EqualEqual" -> "=="
      [] type = "Greater" -> ">"
      [] type = "GreaterEqual" -> ">="
      [] type = "Less" -> "<"
      [] type = "LessEqual" -> "<="
      [] type = "True" -> "True"
      [] type = "False" -> "False"
      [] type = "Nil" -> "Nil"
      [] type = "Class" -> "class"
      [] type = "Function" -> "fun"
      [] type = "Variable" -> "var"
      [] type = "For" -> "for"
      [] type = "If" -> "if"
      [] type = "While" -> "while"
      [] type = "Say" -> "say"
      [] type = "Return" -> "return"
      [] type = "Eof" -> ""

\* Hand-built tokens, as those of tests::test_addition.
Tok(type) == Token(type, LexemeOf(type), NoLiteral, 0)
NumTok(n) == Token("Number", ToString(n), IntValue(n), 0)
StrTok(s) == Token("StringLiteral", "\"" \o s \o "\"", StringValue(s), 0)
\* Tokens as the Lexer makes them.
LexTok(type) == Token(type, LexemeOf(type), NoLiteral, 1)
LexNum(n) == Token("Number", ToString(n), FValue(n, 1), 1)

BinaryTypes ==
    {"BangEqual", "EqualEqual", "Greater", "GreaterEqual", "Less", "LessEqual",
     "Minus", "Plus", "Slash", "Star"}

\* The tokens of the free token sequences.
ParserAlphabet ==
    {NumTok(1), StrTok("s"), Tok("True"), Tok("LeftParen"), Tok("RightParen"),
     Tok("Bang"), Tok("BangEqual"), Tok("EqualEqual"), Tok("Less"), Tok("Minus"),
     Tok("Star"), Tok("SemiColon")}

\* Every sequence of at most n tokens, with and without the Eof.
FreeInputs(n) ==
    {s \o tail : s \in SeqsUpTo(ParserAlphabet, n),
                 tail \in {<<>>, <<Tok("Eof")>>}} \ {<<>>}

\* 1 op 2 op 3 ... over all the binary operators, k of them.
RECURSIVE Chains(_)
Chains(k) ==
    IF k = 0 THEN {<<NumTok(1)>>}
    ELSE {c \o <<Tok(op), NumTok(k + 1)>> : c \in Chains(k - 1), op \in BinaryTypes}

\* The chains of at most n operators, then the Eof.
ChainInputs(n) == {c \o <<Tok("Eof")>> : c \in UNION {Chains(k) : k \in 1..n}}

\* (1 op 2) op 3 and 1 op (2 op 3)
GroupInputs ==
    {<<Tok("LeftParen"), NumTok(1), Tok(a), NumTok(2), Tok("RightParen"), Tok(b),
       NumTok(3), Tok("Eof")>> : a \in BinaryTypes, b \in BinaryTypes}
    \cup
    {<<NumTok(1), Tok(a), Tok("LeftParen"), NumTok(2), Tok(b), NumTok(3),
       Tok("RightParen"), Tok("Eof")>> : a \in BinaryTypes, b \in BinaryTypes}

\* The token sequences of tests::test_addition, test_comparison and
\* test_eq_with_paren.
TestInputs ==
    {<<NumTok(1), Tok("Plus"), NumTok(2), Tok("SemiColon")>>,
     <<LexNum(1), LexTok("Plus"), LexNum(2), LexTok("EqualEqual"), LexNum(5),
       LexTok("Plus"), LexNum(7), LexTok("Eof")>>,
     <<LexNum(1), LexTok("EqualEqual"), LexTok("LeftParen"), LexNum(2),
       LexTok("Plus"), LexNum(2), LexTok("RightParen"), LexTok("SemiColon"),
       LexTok("Eof")>>}

ParserInputs(n, k) == FreeInputs(n) \cup ChainInputs(k) \cup GroupInputs \cup TestInputs

\* Parser::new(tokens)
ParserNew ==
    /\ ptokens \in ParserInputs(MaxTokens, MaxOps)
    /\ pcurrent = 0
    /\ stack = <<>>
    /\ ret = NoRet
    /\ ppc = "idle"

\* No Parser: the state of the parser variables in the Lexer specifications.
NoParser ==
    /\ ptokens = <<>>
    /\ pcurrent = 0
    /\ stack = <<>>
    /\ ret = NoRet
    /\ ppc = "idle"

\* No Lexer: the state of the lexer variables in the other specifications.
NoLexer == LexerNew({<<>>})

\* No Expression of its own: the state of the AST variables in the Lexer and
\* Parser specifications.
NoAst == ast = NoExpr /\ rendered = NotRendered

Init == LexerNew(Sources(MaxLen)) /\ NoParser /\ NoAst

Next ==
    \/ ScanTokensCall
    \/ ScanTokenStep
    \/ ScanTokenPanic
    \/ ScanTokensReturn

Spec == Init /\ [][Next]_vars

\* The characters of the sources of ScanSpec: one for each loop of the lexer
\* (comment, string, number with its fraction, identifier), the newline, a
\* blank, an operator, and a character outside ASCII.
ScanAlphabet == {"/", "\n", "\"", "1", ".", "a", "=", " ", LStroke}

ScanSources(n) == SeqsUpTo(ScanAlphabet, n)

ScanInit == LexerNew(ScanSources(MaxLen)) /\ NoParser /\ NoAst

\* A call of scan_tokens runs without suspension: a step that can be taken
\* is taken.
ScanSpec == ScanInit /\ [][Next]_vars /\ WF_vars(Next)

PunctInit == LexerNew(PunctSources(MaxLen)) /\ NoParser /\ NoAst

PunctSpec == PunctInit /\ [][Next]_vars

KeywordInit == LexerNew(KeywordSources(MaxLen)) /\ NoParser /\ NoAst

KeywordSpec == KeywordInit /\ [][Next]_vars

ParserInit == ParserNew /\ NoLexer /\ NoAst

ParserNext ==
    \/ parse
    \/ equality
    \/ comparison
    \/ term
    \/ factor
    \/ unary
    \/ primary
    \/ ParserPanic
    \/ ParseReturn

ParserSpec == ParserInit /\ [][ParserNext]_vars

\* The tokens of the sequences of CursorSpec: a literal, the parentheses, the
\* prefix operator and one binary operator of each level.
CursorAlphabet ==
    {NumTok(1), Tok("LeftParen"), Tok("RightParen"), Tok("Bang"), Tok("EqualEqual"),
     Tok("Less"), Tok("Minus"), Tok("Star")}

\* Every sequence of at most n of them, with and without the Eof, and the
\* sequences of the tests.
CursorInputs(n) ==
    ({s \o tail : s \in SeqsUpTo(CursorAlphabet, n),
                  tail \in {<<>>, <<Tok("Eof")>>}} \ {<<>>})
        \cup TestInputs

CursorInit ==
    /\ ptokens \in CursorInputs(MaxTokens)
    /\ pcurrent = 0
    /\ stack = <<>>
    /\ ret = NoRet
    /\ ppc = "idle"
    /\ NoLexer
    /\ NoAst

\* parse runs without suspension points: a step that can be taken is taken.
CursorSpec == CursorInit /\ [][ParserNext]_vars /\ WF_vars(ParserNext)

\* The arms of the match in synchronize: the tokens that begin a statement.
SyncTypes == {"Class", "Function", "Variable", "For", "If", "While", "Say", "Return"}

\* synchronize(): the ppc is "idle" before the call, "synchronizing" at the
\* head of the while loop, "synchronized" after the return.
synchronize ==
    /\ \/ /\ ppc = "idle"
          /\ ~Parser_advance(pcurrent).panic
          /\ pcurrent' = Parser_advance(pcurrent).current
          /\ ppc' = "synchronizing"
       \/ /\ ppc = "synchronizing"
          /\ PeekOk(pcurrent)
          /\ Parser_is_at_end(pcurrent)
          /\ ppc' = "synchronized"
          /\ UNCHANGED pcurrent
       \/ /\ ppc = "synchronizing"
          /\ PeekOk(pcurrent)
          /\ ~Parser_is_at_end(pcurrent)
          /\ PreviousOk(pcurrent)
          /\ Parser_previous(pcurrent).token_type = "SemiColon"
          /\ ppc' = "synchronized"
          /\ UNCHANGED pcurrent
       \/ /\ ppc = "synchronizing"
          /\ PeekOk(pcurrent)
          /\ ~Parser_is_at_end(pcurrent)
          /\ PreviousOk(pcurrent)
          /\ Parser_previous(pcurrent).token_type # "SemiColon"
          /\ Parser_peek(pcurrent).token_type \in SyncTypes
          /\ ppc' = "synchronized"
          /\ UNCHANGED pcurrent
       \/ /\ ppc = "synchronizing"
          /\ PeekOk(pcurrent)
          /\ ~Parser_is_at_end(pcurrent)
          /\ PreviousOk(pcurrent)
          /\ Parser_previous(pcurrent).token_type # "SemiColon"
          /\ Parser_peek(pcurrent).token_type \notin SyncTypes
          /\ ~Parser_advance(pcurrent).panic
          /\ pcurrent' = Parser_advance(pcurrent).current
          /\ UNCHANGED ppc
    /\ UNCHANGED <<ptokens, stack, ret>>
    /\ UNCHANGED <<lexvars, astvars>>

\* synchronize indexes outside self.tokens: in its first advance, or in the
\* loop's is_at_end, previous or advance.
SynchronizePanic ==
    /\ \/ /\ ppc = "idle"
          /\ Parser_advance(pcurrent).panic
       \/ /\ ppc = "synchronizing"
          /\ \/ ~PeekOk(pcurrent)
             \/ ~Parser_is_at_end(pcurrent) /\ ~PreviousOk(pcurrent)
             \/ /\ ~Parser_is_at_end(pcurrent)
                /\ Parser_previous(pcurrent).token_type # "SemiColon"
                /\ Parser_peek(pcurrent).token_type \notin SyncTypes
                /\ Parser_advance(pcurrent).panic
    /\ ppc' = "panicked"
    /\ UNCHANGED <<ptokens, pcurrent, stack, ret>>
    /\ UNCHANGED <<lexvars, astvars>>

\* The tokens of the sequences synchronize runs on: the statement terminator,
\* the tokens that begin a statement, and two that do neither.
SyncAlphabet ==
    {Tok(t) : t \in SyncTypes} \cup {Tok("SemiColon"), Tok("True"), NumTok(1)}

\* Every sequence of at most n tokens, then the Eof.
SyncInputs(n) == {s \o <<Tok("Eof")>> : s \in SeqsUpTo(SyncAlphabet, n)}

\* synchronize has no caller in the repository: the Parser it is called on has
\* its cursor on any token of the sequence.
SyncInit ==
    /\ ptokens \in SyncInputs(MaxTokens)
    /\ pcurrent \in 0..(Len(ptokens) - 1)
    /\ stack = <<>>
    /\ ret = NoRet
    /\ ppc = "idle"
    /\ NoLexer
    /\ NoAst

SyncNext ==
    \/ synchronize
    \/ SynchronizePanic

SyncSpec == SyncInit /\ [][SyncNext]_vars

\* The literal values of the expression trees: every variant of LiteralValue,
\* and strings that hold spaces and parentheses.
TreeValues ==
    {LiteralNumber(1, 1), LiteralString("s"), LiteralString("1 1"),
     LiteralString("(group 1)"), LiteralKeyword("True"), LiteralKeyword("False"),
     LiteralKeyword("Nil")}

UnaryOperators == {Tok("Bang"), Tok("Minus")}
BinaryOperators == {Tok("Minus"), Tok("Star")}

\* The expression trees of exactly n nodes.
RECURSIVE TreesOf(_)
TreesOf(n) ==
    IF n = 1 THEN {Literal(v) : v \in TreeValues}
    ELSE {Grouping(e) : e \in TreesOf(n - 1)}
         \cup {Unary(op, e) : op \in UnaryOperators, e \in TreesOf(n - 1)}
         \cup UNION {{Binary(l, op, r) : l \in TreesOf(i), op \in BinaryOperators,
                                          r \in TreesOf(n - 1 - i)} : i \in 1..(n - 2)}

\* The tree of tests::test_pretty_print.
TestTree ==
    Binary(Unary(Tok("Minus"), Literal(LiteralNumber(123, 1))), Tok("Star"),
           Grouping(Literal(LiteralNumber(4567, 100))))

\* The trees of at most n nodes, and the tree of the test.
Trees(n) == UNION {TreesOf(k) : k \in 1..n} \cup {TestTree}

RenderInit == ast \in Trees(MaxNodes) /\ rendered = NotRendered /\ NoLexer /\ NoParser

RenderNext == ToStringCall

RenderSpec == RenderInit /\ [][RenderNext]_vars

-----------------------------------------------------------------------------
\* Properties of the Lexer.

EofCount(toks) == Cardinality({i \in 1..Len(toks) : toks[i].token_type = "Eof"})

EndsWithOneEof(toks) ==
    /\ toks # <<>>
    /\ toks[Len(toks)].token_type = "Eof"
    /\ EofCount(toks) = 1

NonEof(toks) == SelectSeq(toks, LAMBDA t : t.token_type # "Eof")

\* C1: whenever a scan_tokens call has returned, on the first call or a later
\* one, the token list of the Lexer holds exactly one Eof token and it is the
\* last element; so does the list an Ok carries.
C1_ExactlyOneEofLast ==
    lpc = "returned" =>
        /\ EndsWithOneEof(tokens)
        /\ result.ok => EndsWithOneEof(result.tokens)

\* A character no rule of the lexical grammar matches.
NoRuleMatches(c) ==
    /\ c \notin Punctuation \cup Operators \cup Blank \cup {"/", "\n", "\""}
    /\ CodePoint(c) \notin (48..57) \cup (65..90) \cup (97..122) \cup {95}

\* The messages a source without strings and comments calls for: one for each
\* character no rule matches, in source order, with its line.
RECURSIVE ExpectedErrors(_, _)
ExpectedErrors(s, ln) ==
    IF s = <<>> THEN <<>>
    ELSE IF Head(s) = "\n" THEN ExpectedErrors(Tail(s), ln + 1)
    ELSE IF NoRuleMatches(Head(s))
         THEN <<"Unrecognized char at line " \o ToString(ln) \o ": " \o Head(s)>>
                  \o ExpectedErrors(Tail(s), ln)
         ELSE ExpectedErrors(Tail(s), ln)

NoStringNoComment(s) == \A i \in 1..Len(s) : s[i] \notin {"\"", "/"}

\* A source of one-character punctuation, white space and unmatched characters.
PunctuationAndErrors(s) ==
    \A i \in 1..Len(s) : s[i] \in Punctuation \cup Blank \cup {"\n"} \/ NoRuleMatches(s[i])

Lexemes(toks) == [i \in 1..Len(toks) |-> toks[i].lexeme]

\* C2: a scan is never cut short: it runs to the end of the source and returns;
\* it returns Err exactly when a message was recorded, the messages joined by
\* newlines; there is one message for each malformed lexeme, in source order;
\* and the tokens of the well-formed lexemes before and after each error are
\* in the token list.
C2_ErrorsAreCollected ==
    /\ lpc # "panicked"
    /\ lpc = "returned" =>
        /\ result.ok <=> errors = <<>>
        /\ ~result.ok => result.msg = JoinErrors(errors)
    /\ (lpc = "returned" /\ calls = 1 /\ NoStringNoComment(source)) =>
        errors = ExpectedErrors(source, 1)
    /\ (lpc = "returned" /\ calls = 1 /\ PunctuationAndErrors(source)) =>
        Lexemes(NonEof(tokens)) = SelectSeq(source, LAMBDA c : c \in Punctuation)

C8_OneChar(c) ==
    CASE c = "!" -> "Bang" [] c = "=" -> "Equal" [] c = "<" -> "Less" [] c = ">" -> "Greater"

C8_TwoChar(c) ==
    CASE c = "!" -> "BangEqual" [] c = "=" -> "EqualEqual" [] c = "<" -> "LessEqual"
      [] c = ">" -> "GreaterEqual"

\* The scan is about to read one of ! = < > as the start of a lexeme.
AtOperator == lpc = "scanning" /\ HasChar(current) /\ nth(current) \in Operators

\* C8: when a lexeme starts with one of ! = < >, the step emits exactly one
\* token: if the next character is '=', the two-character token, its lexeme
\* both characters, and the scan goes on after the '='; otherwise the
\* one-character token, and the scan goes on at the next character.
C8_TwoCharOperators ==
    [][AtOperator =>
        IF HasChar(current + 1) /\ nth(current + 1) = "="
        THEN /\ tokens' = Append(tokens, Token(C8_TwoChar(nth(current)),
                                               nth(current) \o "=", NoLiteral, line))
             /\ current' = current + 2
        ELSE /\ tokens' = Append(tokens, Token(C8_OneChar(nth(current)),
                                               nth(current), NoLiteral, line))
             /\ current' = current + 1]_vars

C9_Kind(c) ==
    CASE c = "(" -> "LeftParen" [] c = ")" -> "RightParen" [] c = "{" -> "LeftBrace"
      [] c = "}" -> "RightBrace" [] c = "," -> "Comma" [] c = "." -> "Dot"
      [] c = "-" -> "Minus" [] c = "+" -> "Plus" [] c = ";" -> "SemiColon"
      [] c = "*" -> "Star" [] c = "/" -> "Slash"

\* A source of one-character punctuation and white space, no "//" in it.
PunctuationOnly(s) ==
    /\ \A i \in 1..Len(s) : s[i] \in Punctuation \cup Blank \cup {"/", "\n"}
    /\ \A i \in 1..(Len(s) - 1) : ~(s[i] = "/" /\ s[i + 1] = "/")

\* One token for each punctuation character of s, with its kind and its line.
RECURSIVE C9_Expected(_, _)
C9_Expected(s, ln) ==
    IF s = <<>> THEN <<>>
    ELSE IF Head(s) = "\n" THEN C9_Expected(Tail(s), ln + 1)
    ELSE IF Head(s) \in Blank THEN C9_Expected(Tail(s), ln)
    ELSE <<Token(C9_Kind(Head(s)), Head(s), NoLiteral, ln)>> \o C9_Expected(Tail(s), ln)

\* C9: on a source of one-character punctuation and white space the scan
\* never fails, the tokens before the Eof are, at every moment, exactly one
\* per punctuation character read so far, in source order, with the kind
\* and the line of the character, and the scan ends with the Eof after them;
\* white space adds no token.
C9_OneTokenPerPunctuation ==
    PunctuationOnly(source) =>
        /\ lpc # "panicked"
        /\ errors = <<>>
        /\ NonEof(tokens) = C9_Expected(SubSeq(source, 1, current), 1)
        /\ lpc = "returned" =>
            /\ current = Len(source)
            /\ result = Ok(tokens)
            /\ Len(tokens) > Len(NonEof(tokens))
            /\ SubSeq(tokens, 1, Len(NonEof(tokens))) = NonEof(tokens)

C9_Witness ==
    /\ PunctuationOnly(source)
    /\ lpc = "returned"
    /\ \E i \in 1..Len(source) : source[i] \in Blank
    /\ \E i \in 1..Len(tokens) :
        tokens[i].token_type # "Eof" /\ tokens[i].line_number = 2

\* The scan is about to read a '"' that a later '"' closes.
AtClosedString ==
    /\ lpc = "scanning"
    /\ HasChar(current)
    /\ nth(current) = "\""
    /\ \E j \in (current + 1)..(Len(source) - 1) : nth(j) = "\""

\* The index of the closing quote of the string that starts at current.
ClosingQuote ==
    CHOOSE j \in (current + 1)..(Len(source) - 1) :
        /\ nth(j) = "\""
        /\ \A k \in (current + 1)..(j - 1) : nth(k) # "\""

Newlines(s) == Cardinality({i \in 1..Len(s) : s[i] = "\n"})

\* C10: when a lexeme starts with a '"' that a second '"' closes, the step
\* emits one StringLiteral token whose payload is exactly the characters
\* between the two quotes, whose lexeme is those characters with both quotes,
\* and the line counter grows by the newlines between the quotes.
C10_StringPayload ==
    [][AtClosedString =>
        /\ Len(tokens') = Len(tokens) + 1
        /\ SubSeq(tokens', 1, Len(tokens)) = tokens
        /\ tokens'[Len(tokens')].token_type = "StringLiteral"
        /\ tokens'[Len(tokens')].lexeme =
                Concat(SubSeq(source, current + 1, ClosingQuote + 1))
        /\ tokens'[Len(tokens')].literal =
                StringValue(Concat(SubSeq(source, current + 2, ClosingQuote)))
        /\ line' = line + Newlines(SubSeq(source, current + 2, ClosingQuote))
        /\ current' = ClosingQuote + 1]_vars

\* The scan is about to read a '"' that no later '"' closes.
AtOpenString ==
    /\ lpc = "scanning"
    /\ HasChar(current)
    /\ nth(current) = "\""
    /\ \A j \in (current + 1)..(Len(source) - 1) : nth(j) # "\""

\* The call that is returning has recorded an unterminated string.
ReturnsUnterminated ==
    /\ lpc = "scanning"
    /\ lpc' = "returned"
    /\ \E i \in 1..Len(errors) : errors[i] = "Unterminated string."

\* C11: when a lexeme starts with a '"' that no later '"' closes, the step
\* records the message "Unterminated string.", appends no token and consumes
\* the rest of the source; the scan goes on to its end, and the call returns
\* Err, the message in it.
C11_UnterminatedString ==
    /\ [][AtOpenString =>
            /\ errors' = Append(errors, "Unterminated string.")
            /\ tokens' = tokens
            /\ current' = Len(source)
            /\ lpc' = "scanning"
            /\ is_at_end(current')]_vars
    /\ [][ReturnsUnterminated => result' = Err(JoinErrors(errors))]_vars

\* C12: the line of every token the lexer appends is the line on which the
\* token starts: 1 plus the newlines of the source before the first character
\* of its lexeme (before the end of the source, for the Eof token).
C12_TokenLineIsStartLine ==
    [][Len(tokens') = Len(tokens) + 1 =>
        tokens'[Len(tokens')].line_number
            = 1 + Newlines(SubSeq(source, 1, current))]_vars

\* The scan is about to read a character no rule matches.
AtUnmatched == lpc = "scanning" /\ HasChar(current) /\ NoRuleMatches(nth(current))

\* The last step read exactly one character, one that no rule matches.
AfterUnmatched ==
    /\ lpc = "scanning"
    /\ current >= 1
    /\ start = current - 1
    /\ NoRuleMatches(nth(start))

\* C13: on a character no rule matches, a character outside ASCII included,
\* the step records "Unrecognized char at line {line}: {char}" with the
\* current line, appends no token and consumes that one character; the scan
\* then goes on: the next step starts a lexeme at the next character, or the
\* call returns when that character was the last.
C13_UnrecognizedChar ==
    /\ [][AtUnmatched =>
            /\ errors' = Append(errors, "Unrecognized char at line "
                                    \o ToString(line) \o ": " \o nth(current))
            /\ tokens' = tokens
            /\ current' = current + 1
            /\ line' = line
            /\ start' = current
            /\ lpc' = "scanning"]_vars
    /\ [][AfterUnmatched =>
            IF current = Len(source) THEN lpc' = "returned"
            ELSE lpc' = "scanning" /\ start' = current]_vars

AsciiDigit(c) == CodePoint(c) \in 48..57

\* The scan is about to read a digit as the start of a lexeme.
AtDigit == lpc = "scanning" /\ HasChar(current) /\ AsciiDigit(nth(current))

\* The index after the run of digits that starts at index i.
RECURSIVE DigitsEnd(_)
DigitsEnd(i) == IF HasChar(i) /\ AsciiDigit(nth(i)) THEN DigitsEnd(i + 1) ELSE i

\* The index after the maximal match of digits(.digits)? that starts at i.
NumberEnd(i) ==
    LET e == DigitsEnd(i)
    IN  IF HasChar(e + 1) /\ nth(e) = "." /\ AsciiDigit(nth(e + 1))
        THEN DigitsEnd(e + 1) ELSE e

TypesOf(toks) == [i \in 1..Len(toks) |-> toks[i].token_type]

\* C14: when a lexeme starts with a digit, the step emits one Number token
\* whose lexeme is the maximal match of digits(.digits)? from that digit, and
\* the scan goes on after it: a '.' belongs to the number only when a digit
\* follows it, so "11." gives Number "11" and a Dot, and "1.1" one Number
\* "1.1".
C14_NumberLexeme ==
    /\ [][AtDigit =>
            /\ Len(tokens') = Len(tokens) + 1
            /\ SubSeq(tokens', 1, Len(tokens)) = tokens
            /\ tokens'[Len(tokens')].token_type = "Number"
            /\ tokens'[Len(tokens')].lexeme
                    = Concat(SubSeq(source, current + 1, NumberEnd(current)))
            /\ current' = NumberEnd(current)
            /\ errors' = errors]_vars
    /\ []((lpc = "returned" /\ calls = 1 /\ source = <<"1", "1", ".">>) =>
            /\ TypesOf(tokens) = <<"Number", "Dot", "Eof">>
            /\ Lexemes(tokens) = <<"11", ".", "">>)
    /\ []((lpc = "returned" /\ calls = 1 /\ source = <<"1", ".", "1">>) =>
            /\ TypesOf(tokens) = <<"Number", "Eof">>
            /\ Lexemes(tokens) = <<"1.1", "">>)

AsciiLetter(c) == CodePoint(c) \in (65..90) \cup (97..122) \cup {95}

\* The scan is about to read a letter or an underscore as the start of a lexeme.
AtLetter == lpc = "scanning" /\ HasChar(current) /\ AsciiLetter(nth(current))

\* The index after the run of letters, digits and underscores that starts at i.
RECURSIVE WordEnd(_)
WordEnd(i) ==
    IF HasChar(i) /\ (AsciiLetter(nth(i)) \/ AsciiDigit(nth(i))) THEN WordEnd(i + 1) ELSE i

\* The token kind of a word: that of the keyword spelled exactly so, or
\* Identifier.
C15_Kind(word) ==
    CASE word = "and" -> "And" [] word = "class" -> "Class" [] word = "else" -> "Else"
      [] word = "False" -> "False" [] word = "for" -> "For" [] word = "fun" -> "Function"
      [] word = "if" -> "If" [] word = "Nil" -> "Nil" [] word = "or" -> "Or"
      [] word = "say" -> "Say" [] word = "return" -> "Return" [] word = "super" -> "Super"
      [] word = "this" -> "This" [] word = "True" -> "True" [] word = "var" -> "Variable"
      [] word = "while" -> "While" [] OTHER -> "Identifier"

\* The word that starts at the cursor.
WordAtCursor == Concat(SubSeq(source, current + 1, WordEnd(current)))

\* C15: when a lexeme starts with a letter or an underscore, the step emits
\* one token whose lexeme is the maximal run of letters, digits and
\* underscores from there, and the scan goes on after it; the token is the
\* keyword token when the whole lexeme is spelled exactly as an entry of the
\* keyword table, and an Identifier otherwise: another casing, an unlisted
\* word, a keyword with further identifier characters after it.
C15_IdentifierOrKeyword ==
    [][AtLetter =>
        /\ tokens' = Append(tokens, Token(C15_Kind(WordAtCursor), WordAtCursor,
                                          NoLiteral, line))
        /\ current' = WordEnd(current)
        /\ errors' = errors]_vars

\* The scan is about to read "//".
AtComment ==
    /\ lpc = "scanning"
    /\ HasChar(current + 1)
    /\ nth(current) = "/"
    /\ nth(current + 1) = "/"

\* The index of the first newline at or after index i, or the source's length.
LineEnd(i) ==
    IF \E j \in i..(Len(source) - 1) : nth(j) = "\n"
    THEN CHOOSE j \in i..(Len(source) - 1) :
            nth(j) = "\n" /\ \A k \in i..(j - 1) : nth(k) # "\n"
    ELSE Len(source)

\* The last step read a comment.
AfterComment ==
    /\ lpc = "scanning"
    /\ current >= start + 2
    /\ nth(start) = "/"
    /\ nth(start + 1) = "/"

\* C16: on "//" the step discards every character up to, not including, the
\* next newline, or up to the end of the source, with no token, no message
\* and the line counter unchanged; then the newline is scanned as any other,
\* adding one to the line counter, or, the source being at its end, the call
\* returns.
C16_LineComment ==
    /\ [][AtComment =>
            /\ current' = LineEnd(current + 2)
            /\ tokens' = tokens
            /\ errors' = errors
            /\ line' = line
            /\ lpc' = "scanning"]_vars
    /\ [][AfterComment =>
            IF current = Len(source) THEN lpc' = "returned"
            ELSE /\ nth(current) = "\n"
                 /\ current' = current + 1
                 /\ line' = line + 1
                 /\ tokens' = tokens
                 /\ lpc' = "scanning"]_vars

\* The loop that the scan_token call at the cursor runs, if it runs one, ends
\* at a character index between its start and the end of the input.
LoopsStopAtEnd ==
    (lpc = "scanning" /\ HasChar(current)) =>
        LET c == nth(current)
            i == current + 1
        IN  /\ (c = "/" /\ HasChar(i) /\ nth(i) = "/") =>
                    CommentLoop(i + 1) \in (i + 1)..Len(source)
            /\ c = "\"" =>
                    /\ ~StringLoop(i, line).panic
                    /\ StringLoop(i, line).current \in i..Len(source)
            /\ (c \notin Punctuation \cup Operators \cup Blank \cup {"/", "\n", "\""}
                    /\ is_digit(c)) =>
                    /\ DigitLoop(i) \in i..Len(source)
                    /\ (peek(DigitLoop(i)) = "." /\ is_digit(peek_next(DigitLoop(i)))) =>
                            DigitLoop(DigitLoop(i) + 1) \in (DigitLoop(i) + 1)..Len(source)
            /\ (c \notin Punctuation \cup Operators \cup Blank \cup {"/", "\n", "\""}
                    /\ ~is_digit(c) /\ is_alphabetical(c)) =>
                    IdentifierLoop(i) \in i..Len(source)

\* C21: scan_tokens terminates on every source: a call that was entered
\* returns, every scan_token call of the main loop moves current forward by
\* one character or more, between the calls start <= current <= length of
\* the source, and the comment, string, number and identifier loops end at
\* the end of the input at the latest.
C21_ScanTerminates ==
    /\ [](lpc # "panicked")
    /\ [][(lpc = "scanning" /\ ~is_at_end(current)) =>
            (current' > current /\ start' = current)]_vars
    /\ [](start >= 0 /\ start <= current /\ current <= Len(source)
            /\ current <= SourceLen)
    /\ []LoopsStopAtEnd
    /\ [](lpc = "scanning" => ENABLED Next)
    /\ [](lpc = "scanning" => <>(lpc = "returned"))

\* The step appends one token to the list.
C23_Emits == Len(tokens') = Len(tokens) + 1

\* The token the step appends.
C23_Emitted == tokens'[Len(tokens')]

\* C23: the token list only grows by appending. No step, a scan error and a
\* panic included, changes or removes a token of the list, and a step adds
\* one token at most; a token added by scan_token has for lexeme the slice
\* source[start..current] of that moment, a span that is not empty and that
\* begins where the span of the scan_token call before it ended, so that the
\* spans follow each other in the source without overlap; the token added
\* when scan_tokens returns is the Eof, with the empty lexeme.
C23_AppendOnly ==
    /\ [][Len(tokens') \in {Len(tokens), Len(tokens) + 1}
            /\ SubSeq(tokens', 1, Len(tokens)) = tokens]_vars
    /\ [][(C23_Emits /\ lpc' = "scanning") =>
            /\ SliceOk(start', current')
            /\ C23_Emitted.lexeme = Slice(start', current')
            /\ C23_Emitted.token_type # "Eof"
            /\ start' = current
            /\ start' < current'
            /\ current' <= SourceLen]_vars
    /\ [][(start' >= start /\ current' >= current /\ source' = source)]_vars
    /\ [][(C23_Emits /\ lpc' # "scanning") =>
            /\ lpc' = "returned"
            /\ C23_Emitted.token_type = "Eof"
            /\ C23_Emitted.lexeme = ""]_vars
    /\ [][(lpc' = "panicked" \/ Len(errors') > Len(errors)) => tokens' = tokens]_vars

\* A second token was appended after a scan error, the first still there.
C23_Witness ==
    /\ lpc = "scanning"
    /\ Len(errors) = 1
    /\ source = <<"@", "=", "a">>
    /\ Len(tokens) = 2
    /\ tokens[1].lexeme = "="
    /\ tokens[2].lexeme = "a"
    /\ start = 2
    /\ current = 3

-----------------------------------------------------------------------------
\* Properties of the Parser.

\* The precedence level of a binary operator, loosest first.
LevelOf(type) ==
    CASE type \in {"BangEqual", "EqualEqual"} -> 1
      [] type \in {"Greater", "GreaterEqual", "Less", "LessEqual"} -> 2
      [] type \in {"Minus", "Plus"} -> 3
      [] type \in {"Slash", "Star"} -> 4

\* e1 op1 e2 op2 ... en Eof: number operands, the operators all of one level.
SameLevelChain(toks) ==
    /\ Len(toks) >= 4
    /\ Len(toks) % 2 = 0
    /\ toks[Len(toks)].token_type = "Eof"
    /\ \A i \in 1..(Len(toks) - 1) :
        IF i % 2 = 1 THEN toks[i].token_type = "Number"
        ELSE /\ toks[i].token_type \in BinaryTypes
             /\ LevelOf(toks[i].token_type) = LevelOf(toks[2].token_type)

\* Binary(Binary(e1, op1, e2), op2, e3) ... of the tokens e1 op1 e2 op2 e3 ...
RECURSIVE LeftNested(_)
LeftNested(toks) ==
    IF Len(toks) = 1 THEN Literal(from_token(toks[1]))
    ELSE Binary(LeftNested(SubSeq(toks, 1, Len(toks) - 2)), toks[Len(toks) - 1],
                Literal(from_token(toks[Len(toks)])))

\* C3: a chain of operators of one precedence level parses to the tree nested
\* to the left, Binary(Binary(e1, op1, e2), op2, e3) and so on; "1 - 2 - 3"
\* renders as "(- (- 1 2) 3)".
C3_LeftAssociative ==
    (ppc = "done" /\ SameLevelChain(ptokens)) =>
        /\ ret = RetOk(LeftNested(SubSeq(ptokens, 1, Len(ptokens) - 1)))
        /\ Lexemes(ptokens) = <<"1", "-", "2", "-", "3", "">> =>
                to_string(ret.expr) = "(- (- 1 2) 3)"

C3_Witness ==
    /\ ppc = "done"
    /\ SameLevelChain(ptokens)
    /\ Len(ptokens) >= 6
    /\ ret.state = "ok"
    /\ to_string(ret.expr) = "(- (- 1 2) 3)"

\* No operand of a Binary node of e is a Binary node of a looser level.
RECURSIVE PrecedenceRespected(_)
PrecedenceRespected(e) ==
    CASE e.node = "Binary" ->
            /\ \A o \in {e.left, e.right} :
                o.node = "Binary" =>
                    LevelOf(o.operator.token_type) >= LevelOf(e.operator.token_type)
            /\ PrecedenceRespected(e.left)
            /\ PrecedenceRespected(e.right)
      [] e.node = "Grouping" -> PrecedenceRespected(e.expression)
      [] e.node = "Unary" -> PrecedenceRespected(e.right)
      [] OTHER -> TRUE

\* C4: in the tree parse returns, an operand of a Binary node is a Binary
\* node of a looser level only inside a Grouping; "1 + 2 == 5 + 7" renders as
\* "(== (+ 1 2) (+ 5 7))".
C4_PrecedenceRespected ==
    (ppc = "done" /\ ret.state = "ok") =>
        /\ PrecedenceRespected(ret.expr)
        /\ Lexemes(ptokens) = <<"1", "+", "2", "==", "5", "+", "7", "">> =>
                to_string(ret.expr) = "(== (+ 1 2) (+ 5 7))"

C4_Witness ==
    /\ ppc = "done"
    /\ ret.state = "ok"
    /\ to_string(ret.expr) = "(== (+ 1 2) (+ 5 7))"

\* A step is about to be taken by the innermost frame, of production fn, at
\* the place `at` of its body.
At(fn, at) == ppc = "running" /\ stack # <<>> /\ Top.fn = fn /\ Top.at = at

\* An Err travels up unchanged, each frame returning it, and the cursor stays.
ErrIsReturned ==
    ret.state = "err" =>
        /\ ret' = ret
        /\ pcurrent' = pcurrent
        /\ stack # <<>> => stack' = Pop
        /\ stack = <<>> => ppc' = "done"

\* A running parse is never stuck short of a return or a panic.
ParseGoesOn == ppc = "running" => ENABLED ParserNext

\* C5: primary on '(' consumes it and parses the inner expression from
\* equality; after the inner expression a ')' is consumed and the result is
\* Grouping(inner), rendered "(group <inner>)"; any other token, Eof
\* included, is left where it is and the result is Err("Expected ')'"), which
\* parse returns with no tree.
C5_Grouping ==
    /\ [][(At("primary", "enter") /\ PeekOk(pcurrent)
                /\ Parser_peek(pcurrent).token_type = "LeftParen") =>
            /\ pcurrent' = pcurrent + 1
            /\ Len(stack') = Len(stack) + 1
            /\ stack'[Len(stack')] = Enter("equality")]_vars
    /\ [][(At("primary", "inner") /\ ret.state = "ok" /\ PeekOk(pcurrent)) =>
            IF Parser_peek(pcurrent).token_type = "RightParen"
            THEN pcurrent' = pcurrent + 1 /\ ret' = RetOk(Grouping(ret.expr))
            ELSE pcurrent' = pcurrent /\ ret' = RetErr("Expected ')'")]_vars
    /\ [][(ret.msg = "Expected ')'") => ErrIsReturned]_vars
    /\ []ParseGoesOn
    /\ []((ppc = "done" /\ ret.state = "ok" /\ ret.expr.node = "Grouping") =>
            to_string(ret.expr) = "(group " \o to_string(ret.expr.expression) \o ")")
    /\ []((ppc = "done" /\ ret.msg = "Expected ')'") =>
            /\ ret = RetErr("Expected ')'")
            /\ PeekOk(pcurrent)
            /\ Parser_peek(pcurrent).token_type # "RightParen")

C5_Witness ==
    /\ ppc = "done"
    /\ ret = RetErr("Expected ')'")
    /\ pcurrent >= 2
    /\ ptokens[1].token_type = "LeftParen"
    /\ Parser_peek(pcurrent).token_type = "SemiColon"

\* The tokens a primary expression starts with.
PrimaryStarts == {"Number", "StringLiteral", "True", "False", "Nil", "LeftParen"}

\* C6: primary on a token that starts no primary expression, Eof after a
\* trailing operator included, gives Err("Expected expression") and leaves the
\* cursor on that token; the Err is what parse returns, with no tree and the
\* cursor still there.
C6_ExpectedExpression ==
    /\ [][(At("primary", "enter") /\ PeekOk(pcurrent)
                /\ Parser_peek(pcurrent).token_type \notin PrimaryStarts) =>
            /\ ret' = RetErr("Expected expression")
            /\ pcurrent' = pcurrent]_vars
    /\ [][(ret.msg = "Expected expression") => ErrIsReturned]_vars
    /\ []ParseGoesOn
    /\ []((ppc = "done" /\ ret.msg = "Expected expression") =>
            /\ ret = RetErr("Expected expression")
            /\ PeekOk(pcurrent)
            /\ Parser_peek(pcurrent).token_type \notin PrimaryStarts)

C6_Witness ==
    /\ ppc = "done"
    /\ ret = RetErr("Expected expression")
    /\ pcurrent = 2
    /\ ptokens[2].token_type = "Minus"
    /\ Parser_peek(pcurrent).token_type = "Eof"

\* The node at the far left of e, below the left operands of Binary nodes.
RECURSIVE LeftMost(_)
LeftMost(e) == IF e.node = "Binary" THEN LeftMost(e.left) ELSE e

\* C7: unary on '!' or '!=' consumes it and parses its operand by a call of
\* unary, the result being Unary(operator, operand); on any other token it
\* consumes nothing and calls primary.
C7_UnaryOperators ==
    /\ [][(At("unary", "enter") /\ PeekOk(pcurrent)) =>
            IF Parser_peek(pcurrent).token_type \in {"Bang", "BangEqual"}
            THEN /\ pcurrent' = pcurrent + 1
                 /\ Len(stack') = Len(stack) + 1
                 /\ stack'[Len(stack')] = Enter("unary")
                 /\ stack'[Len(stack)].at = "operand"
                 /\ stack'[Len(stack)].operator = Parser_peek(pcurrent)
            ELSE /\ pcurrent' = pcurrent
                 /\ Len(stack') = Len(stack) + 1
                 /\ stack'[Len(stack')] = Enter("primary")]_vars
    /\ [][(At("unary", "operand") /\ ret.state = "ok") =>
            ret' = RetOk(Unary(Top.operator, ret.expr))]_vars
    /\ []((ppc = "done" /\ ret.state = "ok"
                /\ ptokens[1].token_type \in {"Bang", "BangEqual"}) =>
            /\ LeftMost(ret.expr).node = "Unary"
            /\ LeftMost(ret.expr).operator = ptokens[1])

C7_Witness ==
    /\ ppc = "done"
    /\ ret = RetOk(Unary(Tok("BangEqual"), Unary(Tok("Bang"), Literal(LiteralNumber(1, 1)))))

\* The token sequence ends with an Eof.
EofTerminated == ptokens # <<>> /\ ptokens[Len(ptokens)].token_type = "Eof"

\* The 0-based index of the first Eof of the sequence.
EofIndex ==
    (CHOOSE i \in 1..Len(ptokens) :
        /\ ptokens[i].token_type = "Eof"
        /\ \A j \in 1..(i - 1) : ptokens[j].token_type # "Eof") - 1

C22_Operators(fn) ==
    CASE fn = "equality" -> {"BangEqual", "EqualEqual"}
      [] fn = "comparison" -> {"Greater", "GreaterEqual", "Less", "LessEqual"}
      [] fn = "term" -> {"Minus", "Plus"}
      [] fn = "factor" -> {"Slash", "Star"}

\* The kind of the token at the cursor.
C22_Ahead == ptokens[pcurrent + 1].token_type

\* The step consumes exactly the token at the cursor, which is not the Eof.
C22_Consumes == pcurrent' = pcurrent + 1 /\ C22_Ahead # "Eof"

\* The step calls the production fn: a frame for it is pushed.
C22_Calls(fn) ==
    /\ Len(stack') = Len(stack) + 1
    /\ stack'[Len(stack')] = Enter(fn)

\* The operator the calling frame keeps is the token just before the cursor.
C22_KeepsPrevious == stack'[Len(stack)].operator = ptokens[pcurrent']

\* C22: parse never backtracks and ends on a token sequence that ends with
\* an Eof: the cursor never moves back and moves by one token at most, over
\* the token at the cursor, never over the Eof; every decision is made by
\* the kind of the token at the cursor alone (the loop of a binary
\* production goes on exactly on one of its operators, unary recurses
\* exactly on one of its prefix operators, primary opens a group exactly on
\* a '(' and closes it exactly on a ')'), the operator kept being the token
\* just before the cursor; each such iteration, recursion or group consumes
\* one token; and parse reaches its return.
C22_NoBacktracking ==
    /\ [][pcurrent' >= pcurrent]_vars
    /\ [][EofTerminated => (pcurrent' = pcurrent \/ C22_Consumes)]_vars
    /\ [][\A fn \in {"equality", "comparison", "term", "factor"} :
            (EofTerminated /\ At(fn, "loop")) =>
                IF C22_Ahead \in C22_Operators(fn)
                THEN C22_Consumes /\ C22_KeepsPrevious /\ Len(stack') = Len(stack) + 1
                ELSE pcurrent' = pcurrent /\ stack' = Pop /\ ret' = RetOk(Top.expression)]_vars
    /\ [][(EofTerminated /\ At("unary", "enter")) =>
            IF C22_Ahead \in {"Bang", "BangEqual"}
            THEN C22_Consumes /\ C22_KeepsPrevious /\ C22_Calls("unary")
            ELSE pcurrent' = pcurrent /\ C22_Calls("primary")]_vars
    /\ [][(EofTerminated /\ At("primary", "enter")) =>
            CASE C22_Ahead = "LeftParen" -> C22_Consumes /\ C22_Calls("equality")
              [] C22_Ahead \in {"False", "True", "Nil", "Number", "StringLiteral"} ->
                    C22_Consumes /\ stack' = Pop /\ ret'.state = "ok"
              [] OTHER -> pcurrent' = pcurrent /\ stack' = Pop /\ ret'.state = "err"]_vars
    /\ [][(EofTerminated /\ At("primary", "inner") /\ ret.state = "ok") =>
            IF C22_Ahead = "RightParen"
            THEN C22_Consumes /\ ret' = RetOk(Grouping(ret.expr))
            ELSE pcurrent' = pcurrent /\ ret'.state = "err"]_vars
    /\ [][(EofTerminated /\ (C22_Calls("unary") \/ C22_Calls("equality"))
            /\ ppc = "running" /\ stack # <<>> /\ Top.fn \in {"unary", "primary"}) =>
            C22_Consumes]_vars
    /\ EofTerminated => <>(ppc = "done")

\* parse has returned 1 == (2 + 2), with the ';' and the Eof left.
C22_Witness ==
    /\ EofTerminated
    /\ ppc = "done"
    /\ ret.state = "ok"
    /\ ret.expr.node = "Binary"
    /\ ret.expr.right.node = "Grouping"
    /\ pcurrent = 7
    /\ C22_Ahead = "SemiColon"

\* The kinds of the tokens an expression was built from, in their order.
RECURSIVE C24_Types(_)
C24_Types(e) ==
    CASE e.node = "Literal" ->
            <<CASE e.value.kind = "Number" -> "Number"
                [] e.value.kind = "StringValue" -> "StringLiteral"
                [] OTHER -> e.value.kind>>
      [] e.node = "Grouping" -> <<"LeftParen">> \o C24_Types(e.expression) \o <<"RightParen">>
      [] e.node = "Unary" -> <<e.operator.token_type>> \o C24_Types(e.right)
      [] e.node = "Binary" ->
            C24_Types(e.left) \o <<e.operator.token_type>> \o C24_Types(e.right)

\* parse has returned Ok.
C24_ReturnedOk == ppc = "done" /\ ret.state = "ok"

\* The outermost production is at its loop test, on a token it has no use
\* for.
C24_CannotContinue ==
    /\ Len(stack) = 1
    /\ At("equality", "loop")
    /\ PeekOk(pcurrent)
    /\ Parser_peek(pcurrent).token_type \notin {"BangEqual", "EqualEqual"}

\* C24: parse does not ask for the Eof. When the token after a complete
\* expression cannot continue it, whatever it is, parse returns Ok with that
\* expression and no message, the cursor staying on that token; the
\* expression returned is the one of the tokens before the cursor, and the
\* tokens from the cursor on are left in the sequence, not consumed; and
\* whenever parse has returned Ok, the cursor is on a token of the sequence
\* that is none of != == > >= < <= - + / *.
C24_StopsBeforeEof ==
    /\ [][C24_CannotContinue =>
            /\ stack' = <<>>
            /\ ret' = RetOk(Top.expression)
            /\ pcurrent' = pcurrent
            /\ ppc' = "running"]_vars
    /\ [][(ppc = "running" /\ stack = <<>>) =>
            (ppc' = "done" /\ ret' = ret /\ pcurrent' = pcurrent)]_vars
    /\ [][ptokens' = ptokens]_vars
    /\ [](C24_ReturnedOk =>
            /\ ret.msg = ""
            /\ PeekOk(pcurrent)
            /\ Parser_peek(pcurrent).token_type \notin
                    {"BangEqual", "EqualEqual", "Greater", "GreaterEqual", "Less",
                     "LessEqual", "Minus", "Plus", "Slash", "Star"}
            /\ pcurrent >= 1
            /\ C24_Types(ret.expr) = TypesOf(SubSeq(ptokens, 1, pcurrent)))

\* tests::test_addition: parse has returned 1 + 2 with the cursor on the
\* ';', in a sequence that has no Eof.
C24_Witness ==
    /\ C24_ReturnedOk
    /\ ptokens = <<NumTok(1), Tok("Plus"), NumTok(2), Tok("SemiColon")>>
    /\ ret.expr = Binary(Literal(LiteralNumber(1, 1)), Tok("Plus"), Literal(LiteralNumber(2, 1)))
    /\ pcurrent = 3

\* The cursor is where synchronize may stop: just after a ';', on a token
\* that begins a statement, or on the Eof.
AtStatementBoundary ==
    \/ pcurrent >= 1 /\ ptokens[pcurrent].token_type = "SemiColon"
    \/ ptokens[pcurrent + 1].token_type \in
            {"Class", "Function", "Variable", "For", "If", "While", "Say", "Return"}
    \/ ptokens[pcurrent + 1].token_type = "Eof"

\* A call of synchronize is never stuck short of its return or a panic.
SynchronizeGoesOn == ppc \in {"idle", "synchronizing"} => ENABLED SyncNext

\* C19: from any cursor position of a token sequence that ends with its Eof,
\* synchronize never indexes outside the sequence, only moves the cursor
\* forward, never past the Eof, leaves the tokens as they are, and returns
\* with the cursor just after a ';', on a token that begins a statement, or
\* on the Eof.
C19_Synchronize ==
    /\ [](ppc # "panicked")
    /\ []SynchronizeGoesOn
    /\ [](pcurrent >= 0 /\ pcurrent <= Len(ptokens) - 1)
    /\ [][ptokens' = ptokens /\ pcurrent' >= pcurrent]_vars
    /\ [](ppc = "synchronized" => AtStatementBoundary)

-----------------------------------------------------------------------------
\* Properties of the rendering.

\* The words, with one space between each two.
RECURSIVE C17_Join(_)
C17_Join(words) ==
    IF Len(words) = 1 THEN words[1] ELSE words[1] \o " " \o C17_Join(Tail(words))

\* The text of a literal value: a number in decimal notation, a string as it
\* is, the keywords by their names.
C17_Value(value) ==
    CASE value = LiteralNumber(1, 1) -> "1"
      [] value = LiteralNumber(123, 1) -> "123"
      [] value = LiteralNumber(4567, 100) -> "45.67"
      [] value.kind = "StringValue" -> value.text
      [] value = LiteralKeyword("True") -> "True"
      [] value = LiteralKeyword("False") -> "False"
      [] value = LiteralKeyword("Nil") -> "Nil"

RECURSIVE C17_Render(_)
C17_Render(e) ==
    CASE e.node = "Literal" -> C17_Value(e.value)
      [] e.node = "Grouping" ->
            "(" \o C17_Join(<<"group", C17_Render(e.expression)>>) \o ")"
      [] e.node = "Unary" ->
            "(" \o C17_Join(<<e.operator.lexeme, C17_Render(e.right)>>) \o ")"
      [] e.node = "Binary" ->
            "(" \o C17_Join(<<e.operator.lexeme, C17_Render(e.left),
                              C17_Render(e.right)>>) \o ")"

\* C17: to_string renders a Binary node as "(<operator lexeme> <left>
\* <right>)", a Unary node as "(<operator lexeme> <operand>)", a Grouping as
\* "(group <inner>)" and a Literal as the text of its value, the operands
\* rendered the same way, with single spaces and nothing else added; the tree
\* of test_pretty_print renders as "(* (- 123) (group 45.67))".
C17_Rendering ==
    /\ rendered.some => rendered.text = C17_Render(ast)
    /\ (rendered.some /\ ast = TestTree) => rendered.text = "(* (- 123) (group 45.67))"

C17_Witness ==
    /\ rendered.some
    /\ ast.node = "Binary"
    /\ ast.left.node = "Unary"
    /\ ast.right.node = "Grouping"
    /\ rendered.text = "(* (- 123) (group 45.67))"

\* The shape of a tree: its node variants, operators and nesting, the literal
\* values left out.
RECURSIVE Shape(_)
Shape(e) ==
    CASE e.node = "Literal" -> <<"Literal">>
      [] e.node = "Grouping" -> <<"Grouping", Shape(e.expression)>>
      [] e.node = "Unary" -> <<"Unary", e.operator, Shape(e.right)>>
      [] e.node = "Binary" -> <<"Binary", e.operator, Shape(e.left), Shape(e.right)>>

\* C18: no tree of another shape renders to the string a tree renders to.
C18_Lossless ==
    rendered.some =>
        \A t \in Trees(MaxNodes) : to_string(t) = rendered.text => Shape(t) = Shape(ast)

====
